---- MODULE Spec2Model ----
(***************************************************************************)
(* Data-acquisition layer of scripts/a_share_analyzer.py: the two-tier     *)
(* CacheManager, the DataSourceManager (rate limit, per-source failure     *)
(* counters, ordered fallback) and the cache-wrapped fetch functions.      *)
(*                                                                         *)
(* Column names of the source are Chinese; strings here are ASCII, so they *)
(* are written in pinyin: daima (code), mingcheng (name), zuixinjia (last  *)
(* price), riqi (date), kaipan/zuigao/zuidi/shoupan (open/high/low/close), *)
(* chengjiaoliang (volume), chengjiaoe (amount), zhangdiefu (change        *)
(* percent), huanshoulv (turnover).                                        *)
(*                                                                         *)
(* Time is counted in whole seconds.  An upstream call is shorter than the *)
(* resolution of the clock: time passes in the rate-limit sleep and        *)
(* between the calls of the public methods.  One action is one call of a   *)
(* public method; the variables op, ret, trace, calls, prev_call,          *)
(* store_ops and requests record what the last call did (they are history  *)
(* variables, the code has none).                                          *)
(*                                                                         *)
(* The parquet files of the historical store are the variable partitions.  *)
(* Reading or writing a file may fail; a write that fails leaves the file  *)
(* as it was or leaves a file that cannot be read.                         *)
(***************************************************************************)
EXTENDS Integers, Sequences, FiniteSets, TLC

VARIABLES
    now,                \* the wall clock read by time.time() / datetime.now()
    last_request_time,  \* DataSourceManager.last_request_time
    failure_count,      \* DataSourceManager.failure_count (a dict)
    memory_cache,       \* CacheManager._memory_cache (a dict key -> <<data, timestamp>>)
    op,                 \* the last call: its name and arguments
    ret,                \* what the last call returned or raised
    trace,              \* the candidates the last resolution went through, in order
    calls,              \* the upstream (akshare) calls the last call made: <<api, start time>>
    prev_call,          \* start time of the last upstream call made before the last call, -1 if none
    horizon,            \* the time at which the clock of the model stops
    partitions,         \* the parquet files of CacheManager._cache_dir: file path -> file
    store_ops,          \* the accesses the last call made to the parquet files, in order
    requests            \* the methods of the Source Manager the last call invoked, in order

vars ==
    <<now, last_request_time, failure_count, memory_cache, op, ret, trace, calls, prev_call,
      horizon, partitions, store_ops, requests>>

----------------------------------------------------------------------------
(* Bounds of the model *)

MaxTime == 8          \* the clock stops here in Spec and SpecMemory
MaxQuoteTime == 33    \* the clock stops here in SpecQuotes
MaxTtl == 2           \* the ttl arguments tried besides None and the ttl of the quotes
StartTime == 1        \* the clock at construction (an epoch time, far from 0)
MaxCode == 1          \* the stock codes an upstream quote table may list are 1..MaxCode
MaxDay == 2           \* the trading days are 1..MaxDay
MaxEndDay == 4        \* the day the requests of SpecHistory end on
MaxStoreDay == 2      \* the days of the tables of SpecStore are 1..MaxStoreDay
MaxRows == 2          \* the most rows a table of SpecStore has
MaxHistTime == 3      \* the clock stops here in SpecHistory

(* Program constants *)

request_interval == 1
max_failures == 3
default_ttl == 60
realtime_ttl == 30
freshness_days == 2
symbol_length == 6
min_days == 30
max_days == 3650
min_required == 30
index_days == 365

----------------------------------------------------------------------------
(* pandas values: a DataFrame is its column set and its rows; None is the  *)
(* absent table.                                                           *)

None == [none |-> TRUE, cols |-> {}, rows |-> <<>>]

DataFrame(cols, rows) == [none |-> FALSE, cols |-> cols, rows |-> rows]

IsEmpty(df) == Len(df.rows) = 0

\* the test `df is not None and not df.empty` of the resolution loops
Usable(df) == (~df.none) /\ ~IsEmpty(df)

RECURSIVE SeqOfSet(_)
\* the elements of a finite set of integers as an ascending sequence
SeqOfSet(S) ==
    IF S = {} THEN <<>>
    ELSE LET m == CHOOSE x \in S : \A y \in S : x <= y
         IN  <<m>> \o SeqOfSet(S \ {m})

----------------------------------------------------------------------------
(* A python dict with string keys *)

EmptyDict == <<>>

DictGet(d, k, default) == IF k \in DOMAIN d THEN d[k] ELSE default

DictPut(d, k, v) == [x \in (DOMAIN d) \cup {k} |-> IF x = k THEN v ELSE d[x]]

DictDel(d, k) == [x \in (DOMAIN d) \ {k} |-> d[x]]

----------------------------------------------------------------------------
(* CacheManager: the memory cache *)

\* an optional argument: Nothing is python's None, Some(x) a given value
Nothing == {}

Some(x) == {x}

TheValue(o) == CHOOSE x \in o : TRUE

\* `ttl = ttl or self._default_ttl`
EffectiveTtl(ttl) ==
    IF ttl = Nothing \/ ttl = Some(0) THEN default_ttl ELSE TheValue(ttl)

\* (variant: an entry expires when its age reaches the ttl)
GetMemoryStrict(mc, key, ttl, t) ==
    IF key \notin DOMAIN mc THEN [value |-> None, cache |-> mc]
    ELSE LET data      == mc[key][1]
             timestamp == mc[key][2]
         IN  IF t - timestamp >= EffectiveTtl(ttl)
             THEN [value |-> None, cache |-> DictDel(mc, key)]
             ELSE [value |-> data, cache |-> mc]

\* CacheManager.get_memory(key, ttl) read at time t: the value returned and
\* the cache it leaves
GetMemory(mc, key, ttl, t) ==
    IF key \notin DOMAIN mc THEN [value |-> None, cache |-> mc]
    ELSE LET data      == mc[key][1]
             timestamp == mc[key][2]
         IN  IF t - timestamp > EffectiveTtl(ttl)
             THEN [value |-> None, cache |-> DictDel(mc, key)]
             ELSE [value |-> data, cache |-> mc]

\* CacheManager.set_memory(key, data) at time t
SetMemory(mc, key, data, t) == DictPut(mc, key, <<data, t>>)

\* CacheManager.get_realtime_quotes()
CacheGetRealtimeQuotes(mc, t) == GetMemory(mc, "realtime_quotes", Some(realtime_ttl), t)

\* CacheManager.set_realtime_quotes(df)
CacheSetRealtimeQuotes(mc, df, t) == SetMemory(mc, "realtime_quotes", df, t)

----------------------------------------------------------------------------
(* The upstream provider (akshare): every call either raises or returns a  *)
(* table, possibly None or empty.                                          *)

Raised(api) == [raised |-> TRUE, error |-> api, df |-> None]

Returned(df) == [raised |-> FALSE, error |-> "None", df |-> df]

Codes == 1..MaxCode

EmCols == {"daima", "mingcheng", "zuixinjia"}

SinaCols == {"symbol", "name", "trade", "buy", "sell"}

QuoteRows(S) == [i \in 1..Cardinality(S) |-> [daima |-> SeqOfSet(S)[i]]]

\* what a quote api may answer: an error, None, an empty table, or a table
\* listing the codes 1..k
QuoteResponses(api, cols) ==
    {Raised(api), Returned(None), Returned(DataFrame({}, <<>>))}
      \cup {Returned(DataFrame(cols, QuoteRows(1..k))) : k \in Codes}

----------------------------------------------------------------------------
(* The fetch functions of the sources.  A fetch is what fetch_func() does: *)
(* the upstream calls it makes, in order, whether it caught an exception   *)
(* of one of them, and its outcome.                                        *)

Fetch(apis, caught, r) ==
    [apis |-> apis, caught |-> caught, raised |-> r.raised, error |-> r.error, df |-> r.df]

RenameCols(cols, column_map) ==
    {IF c \in DOMAIN column_map THEN column_map[c] ELSE c : c \in cols}

\* ("em", lambda: ak.stock_zh_a_spot_em()): the upstream answer as it is
EmRealtime(r) == Fetch(<<"stock_zh_a_spot_em">>, FALSE, r)

SinaColumnMap ==
    [symbol |-> "daima", code |-> "daima", name |-> "mingcheng", trade |-> "zuixinjia",
     pricechange |-> "zhangdiee", changepercent |-> "zhangdiefu",
     open |-> "jinkai", high |-> "zuigao", low |-> "zuidi",
     volume |-> "chengjiaoliang", amount |-> "chengjiaoe", turnoverratio |-> "huanshoulv"]

\* (variant: no try statement, the exception of the api leaves the helper)
GetSinaRealtimeNoExcept(r) ==
    Fetch(<<"stock_zh_a_spot">>, FALSE,
          IF r.raised THEN r
          ELSE IF Usable(r.df)
               THEN Returned(DataFrame(RenameCols(r.df.cols, SinaColumnMap), r.df.rows))
               ELSE Returned(r.df))

\* r: the answer of ak.stock_zh_a_spot()
GetSinaRealtime(r) ==
    Fetch(<<"stock_zh_a_spot">>, r.raised,
          IF r.raised THEN Returned(None)
          ELSE IF Usable(r.df)
               THEN Returned(DataFrame(RenameCols(r.df.cols, SinaColumnMap), r.df.rows))
               ELSE Returned(r.df))

CombinedApis ==
    <<"stock_kc_a_spot_em", "stock_cy_a_spot_em", "stock_sh_a_spot_em", "stock_sz_a_spot_em">>

RECURSIVE Concat(_)
\* pd.concat(dfs, ignore_index=True) of tables that are not None
Concat(dfs) ==
    IF dfs = <<>> THEN DataFrame({}, <<>>)
    ELSE LET rest == Concat(Tail(dfs))
         IN  DataFrame(Head(dfs).cols \cup rest.cols, Head(dfs).rows \o rest.rows)

\* drop_duplicates(subset=[key], keep='first')
DropDuplicatesFirst(rows, key) ==
    SelectSeq([i \in 1..Len(rows) |-> [pos |-> i, row |-> rows[i]]],
              LAMBDA e : \A j \in 1..(e.pos - 1) : rows[j][key] # e.row[key])

Unwrap(entries) == [i \in 1..Len(entries) |-> entries[i].row]

\* rs: the answers of the four board apis, in the order of CombinedApis
GetCombinedRealtime(rs) ==
    LET answered == SelectSeq(rs, LAMBDA r : ~r.raised)
        dfs      == [i \in 1..Len(answered) |-> answered[i].df]
        tables   == SelectSeq(dfs, LAMBDA d : ~d.none)
        combined == Concat(tables)
    IN  Fetch(CombinedApis, Len(answered) < Len(rs) \/ tables = <<>>,
              IF dfs = <<>> THEN Returned(None)
              ELSE IF tables = <<>> THEN Returned(None)   \* pd.concat raises, caught
              ELSE IF "daima" \in combined.cols
                   THEN Returned(DataFrame(combined.cols,
                                           Unwrap(DropDuplicatesFirst(combined.rows, "daima"))))
                   ELSE Returned(combined))

EmRealtimeFetches == {EmRealtime(r) : r \in QuoteResponses("stock_zh_a_spot_em", EmCols)}

SinaRealtimeFetches == {GetSinaRealtime(r) : r \in QuoteResponses("stock_zh_a_spot", SinaCols)}

CombinedRealtimeFetches ==
    {GetCombinedRealtime(<<r1, r2, r3, r4>>) :
        r1 \in QuoteResponses(CombinedApis[1], EmCols),
        r2 \in QuoteResponses(CombinedApis[2], EmCols),
        r3 \in QuoteResponses(CombinedApis[3], EmCols),
        r4 \in QuoteResponses(CombinedApis[4], EmCols)}

\* (variant: sina is tried before em)
RealtimeSourcesSwapped == <<"sina", "em", "em_combined">>

\* the list `sources` of get_realtime_quotes: names in priority order, and
\* what each fetch_func may do
RealtimeSources == <<"em", "sina", "em_combined">>

RealtimeFetch ==
    [em |-> EmRealtimeFetches, sina |-> SinaRealtimeFetches, em_combined |-> CombinedRealtimeFetches]

----------------------------------------------------------------------------
(* Historical series.  A date is a day number; a row carries its date, the *)
(* granularity of the bar and the api it came from.                        *)

Days == 1..MaxDay

Symbols == {"600519"}

Periods == {"daily", "weekly"}

HistCols ==
    {"riqi", "kaipan", "shoupan", "zuigao", "zuidi", "chengjiaoliang", "chengjiaoe",
     "zhangdiefu", "huanshoulv"}

DailyCols == {"date", "open", "high", "low", "close", "volume"}

CsindexCols ==
    {"riqi", "kaipan", "zuigao", "zuidi", "shoupan", "zhangdiefu", "chengjiaoliang",
     "chengjiaojine"}

HistRows(api, period, S) ==
    [i \in 1..Cardinality(S) |-> [riqi |-> SeqOfSet(S)[i], period |-> period, api |-> api]]

\* the rows in the opposite order
Reverse(rows) == [i \in 1..Len(rows) |-> rows[Len(rows) + 1 - i]]

\* what a history api may answer: an error, None, an empty table, or the
\* bars of the given granularity for the offered days up to the last day k
\* the provider has, oldest first or newest first
HistResponses(api, cols, period, offered) ==
    {Raised(api), Returned(None), Returned(DataFrame({}, <<>>))}
      \cup {Returned(DataFrame(cols, HistRows(api, period, {x \in offered : x <= k}))) :
                k \in offered}
      \cup {Returned(DataFrame(cols, Reverse(HistRows(api, period, {x \in offered : x <= k})))) :
                k \in offered}

\* ("em", lambda: ak.stock_zh_a_hist(symbol, period, start_date, end_date, adjust))
EmStockHistory(r) == Fetch(<<"stock_zh_a_hist">>, FALSE, r)

TencentColumnMap ==
    [date |-> "riqi", open |-> "kaipan", high |-> "zuigao", low |-> "zuidi",
     close |-> "shoupan", volume |-> "chengjiaoliang"]

\* r: the answer of ak.stock_zh_a_daily(symbol, adjust)
GetTencentHistory(r, start_date, end_date) ==
    Fetch(<<"stock_zh_a_daily">>, r.raised,
          IF r.raised THEN Returned(None)
          ELSE IF Usable(r.df)
               THEN LET rows == SelectSeq(r.df.rows,
                                          LAMBDA x : x.riqi >= start_date /\ x.riqi <= end_date)
                        cols == RenameCols(r.df.cols, TencentColumnMap)
                    IN  Returned(DataFrame(cols \cup {"chengjiaoe", "zhangdiefu", "huanshoulv"},
                                           rows))
               ELSE Returned(r.df))

\* ("em", lambda: ak.index_zh_a_hist(symbol, period, start_date, end_date))
EmIndexHistory(r) == Fetch(<<"index_zh_a_hist">>, FALSE, r)

CsindexColumnMap ==
    [riqi |-> "riqi", kaipan |-> "kaipan", zuigao |-> "zuigao", zuidi |-> "zuidi",
     shoupan |-> "shoupan", zhangdiefu |-> "zhangdiefu", chengjiaoliang |-> "chengjiaoliang",
     chengjiaojine |-> "chengjiaoe"]

\* r: the answer of ak.stock_zh_index_hist_csindex(symbol, start_date, end_date)
GetCsindexHistory(r) ==
    Fetch(<<"stock_zh_index_hist_csindex">>, r.raised,
          IF r.raised THEN Returned(None)
          ELSE IF Usable(r.df)
               THEN LET cols == RenameCols(r.df.cols, CsindexColumnMap)
                    IN  Returned(DataFrame(
                            IF "chengjiaoe" \notin cols /\ "chengjiaoliang" \in cols
                            THEN cols \cup {"chengjiaoe"} ELSE cols,
                            r.df.rows))
               ELSE Returned(r.df))

\* the days of a requested range a provider has bars for: the history of
\* the providers begins at day 1
Offered(start_date, end_date) == {x \in start_date..end_date : x >= 1}

\* the list `sources` of get_stock_history
\* (variant: the first candidate is listed twice)
StockSourcesRepeated == <<"em", "em", "tx">>

StockSources == <<"em", "tx">>

StockFetch(period, start_date, end_date) ==
    [em |-> {EmStockHistory(r) :
                r \in HistResponses("stock_zh_a_hist", HistCols, period,
                                    Offered(start_date, end_date))},
     tx |-> {GetTencentHistory(r, start_date, end_date) :
                r \in HistResponses("stock_zh_a_daily", DailyCols, "daily", Days)}]

\* the list `sources` of get_index_history
IndexSources == <<"em", "csindex">>

IndexFetch(period, start_date, end_date) ==
    [em |-> {EmIndexHistory(r) :
                r \in HistResponses("index_zh_a_hist", HistCols, period,
                                    Offered(start_date, end_date))},
     csindex |-> {GetCsindexHistory(r) :
                r \in HistResponses("stock_zh_index_hist_csindex", CsindexCols, "daily",
                                    Offered(start_date, end_date))}]

----------------------------------------------------------------------------
(* Dates.  A date value (a datetime, or the date of an upstream row) is a  *)
(* day number; day 1 is 2024-03-01, and the days before it reach back to   *)
(* 2023-03-01, a year being the longest span an entry point asks for.  The *)
(* text of a date is the number its digits form, 20240301: the formats     *)
(* '%Y-%m-%d' and '%Y%m%d' differ in the dashes only, and the order of two *)
(* texts of one format is the order of these numbers, the fields being     *)
(* zero-padded.                                                            *)

\* the months of the calendar, newest first: year and month, and the day
\* number of the first of the month
Months ==
    <<[ym |-> 202403, first |-> 1],    [ym |-> 202402, first |-> -28],
      [ym |-> 202401, first |-> -59],  [ym |-> 202312, first |-> -90],
      [ym |-> 202311, first |-> -120], [ym |-> 202310, first |-> -151],
      [ym |-> 202309, first |-> -181], [ym |-> 202308, first |-> -212],
      [ym |-> 202307, first |-> -243], [ym |-> 202306, first |-> -273],
      [ym |-> 202305, first |-> -304], [ym |-> 202304, first |-> -334],
      [ym |-> 202303, first |-> -365]>>

\* strftime('%Y-%m-%d')
Strftime(n) ==
    LET i == CHOOSE i \in 1..Len(Months) :
                 /\ Months[i].first <= n
                 /\ \A j \in 1..(i - 1) : Months[j].first > n
    IN  Months[i].ym * 100 + (n - Months[i].first + 1)

\* strptime(text, '%Y-%m-%d'), pd.to_datetime of such a text
Strptime(text) ==
    LET i == CHOOSE i \in 1..Len(Months) : Months[i].ym = text \div 100
    IN  Months[i].first + (text % 100) - 1

\* the text '%Y%m%d' of a day, the form of the start_date and end_date arguments
Compact(n) == Strftime(n)

\* strptime(text, '%Y%m%d'), pd.to_datetime of such a text
StrptimeCompact(text) == Strptime(text)

\* the comparison <= of two '%Y-%m-%d' strings
StrLeq(a, b) == a <= b

----------------------------------------------------------------------------
(* The historical store: one parquet file per (data_type, symbol, period). *)
(* A stored row carries its date as '%Y-%m-%d' text.                       *)

\* _get_file_path: the name f"{data_type}_{symbol}_{period}.parquet"
FilePath(symbol, period, data_type) == <<data_type, symbol, period>>

\* the symbol texts the entry points are called with, and their characters
SymbolArgs == Symbols \cup {"", "60051", "6005190", "60051a", "sh6005"}

Chars(symbol) ==
    CASE symbol = "600519"  -> <<"6", "0", "0", "5", "1", "9">>
      [] symbol = ""        -> <<>>
      [] symbol = "60051"   -> <<"6", "0", "0", "5", "1">>
      [] symbol = "6005190" -> <<"6", "0", "0", "5", "1", "9", "0">>
      [] symbol = "60051a"  -> <<"6", "0", "0", "5", "1", "a">>
      [] symbol = "sh6005"  -> <<"s", "h", "6", "0", "0", "5">>
      [] symbol = "stock"   -> <<"s", "t", "o", "c", "k">>
      [] symbol = "index"   -> <<"i", "n", "d", "e", "x">>
      [] symbol = "daily"   -> <<"d", "a", "i", "l", "y">>
      [] symbol = "weekly"  -> <<"w", "e", "e", "k", "l", "y">>

\* the file paths of the model
DataTypes == {"stock", "index"}

FilePaths == {FilePath(symbol, period, data_type) :
                symbol \in SymbolArgs, period \in Periods, data_type \in DataTypes}

NoFile == [exists |-> FALSE, readable |-> FALSE, df |-> None]

\* a file to_parquet wrote completely
File(df) == [exists |-> TRUE, readable |-> TRUE, df |-> df]

\* a file a failed to_parquet left behind: pd.read_parquet raises on it
TornFile == [exists |-> TRUE, readable |-> FALSE, df |-> None]

\* df['riqi'] = pd.to_datetime(df['riqi']).dt.strftime('%Y-%m-%d') on rows
\* whose dates are date values
FormatDates(rows) == [i \in 1..Len(rows) |-> [rows[i] EXCEPT !.riqi = Strftime(@)]]

\* the same statement on rows whose dates are '%Y-%m-%d' text
ReformatDates(rows) == [i \in 1..Len(rows) |-> [rows[i] EXCEPT !.riqi = Strftime(Strptime(@))]]

\* (variant: the earliest date stored)
MinDate(rows) ==
    rows[CHOOSE i \in 1..Len(rows) : \A j \in 1..Len(rows) : StrLeq(rows[i].riqi, rows[j].riqi)].riqi

\* df['riqi'].max() of a non-empty table of stored rows
MaxDate(rows) ==
    rows[CHOOSE i \in 1..Len(rows) : \A j \in 1..Len(rows) : StrLeq(rows[j].riqi, rows[i].riqi)].riqi

\* what the file system does to one read_parquet / to_parquet
LoadIo == {"ok", "read_error"}

SaveIo == {"ok", "read_error", "write_error"}

\* get_historical_data once the file is read: the rows of the range, or
\* None when the table is empty, has no row of the range or is stale
SelectFresh(df, start_date, end_date) ==
    IF IsEmpty(df) THEN None
    ELSE LET rows     == ReformatDates(df.rows)
             start_dt == Strftime(StrptimeCompact(start_date))
             end_dt   == Strftime(StrptimeCompact(end_date))
             filtered == SelectSeq(rows, LAMBDA x : StrLeq(start_dt, x.riqi)
                                                    /\ StrLeq(x.riqi, end_dt))
         IN  IF filtered = <<>> THEN None
             ELSE LET cached_last_date == MaxDate(rows)
                      cached_last_dt   == Strptime(cached_last_date)
                      end_dt_obj       == Strptime(end_dt)
                  IN  IF end_dt_obj - cached_last_dt > freshness_days THEN None
                      ELSE DataFrame(df.cols, filtered)

\* (variant: an error of read_parquet goes unnoticed)
GetHistoricalDataNoExcept(parts, symbol, period, start_date, end_date, data_type, io) ==
    LET file == parts[FilePath(symbol, period, data_type)]
    IN  IF ~file.exists THEN None
        ELSE SelectFresh(file.df, start_date, end_date)

\* CacheManager.get_historical_data(symbol, period, start_date, end_date, data_type)
GetHistoricalData(parts, symbol, period, start_date, end_date, data_type, io) ==
    LET file == parts[FilePath(symbol, period, data_type)]
    IN  IF ~file.exists THEN None
        ELSE IF io = "read_error" \/ ~file.readable THEN None
        ELSE SelectFresh(file.df, start_date, end_date)

\* (variant: the first occurrence of a date is kept)
DropDuplicatesKeepFirst(rows) ==
    SelectSeq([i \in 1..Len(rows) |-> [row |-> rows[i], i |-> i]],
              LAMBDA e : \A j \in 1..Len(rows) : rows[j].riqi = e.row.riqi => j >= e.i)

\* combined.drop_duplicates(subset=['riqi'], keep='last'): the rows with their positions
DropDuplicates(rows) ==
    SelectSeq([i \in 1..Len(rows) |-> [row |-> rows[i], i |-> i]],
              LAMBDA e : \A j \in 1..Len(rows) : rows[j].riqi = e.row.riqi => j <= e.i)

\* sort_values('riqi').reset_index(drop=True): the sort is not a stable one,
\* rows of equal date may come out in any order
SortValues(rows) ==
    {s \in {[i \in 1..Len(rows) |-> rows[p[i]]] : p \in Permutations(1..Len(rows))} :
        \A i \in 1..(Len(s) - 1) : StrLeq(s[i].riqi, s[i + 1].riqi)}

\* what a to_parquet of df at file path can leave there
ToParquet(parts, path, df, io) ==
    IF io = "write_error" THEN {parts, [parts EXCEPT ![path] = TornFile]}
    ELSE {[parts EXCEPT ![path] = File(df)]}

\* the try statement of save_historical_data: the contents of the files it
\* can leave
MergeAndWrite(parts, df, symbol, period, data_type, io) ==
    LET path    == FilePath(symbol, period, data_type)
        file    == parts[path]
        new_df  == DataFrame(df.cols, FormatDates(df.rows))
    IN  IF file.exists
        THEN IF io = "read_error" \/ ~file.readable THEN {parts}
             ELSE LET existing_df == DataFrame(file.df.cols, ReformatDates(file.df.rows))
                      kept        == DropDuplicates(existing_df.rows \o new_df.rows)
                      combined    == [i \in 1..Len(kept) |-> kept[i].row]
                  IN  UNION {ToParquet(parts, path,
                                       DataFrame(existing_df.cols \cup new_df.cols, s), io) :
                               s \in SortValues(combined)}
        ELSE UNION {ToParquet(parts, path, DataFrame(new_df.cols, s), io) :
                       s \in SortValues(new_df.rows)}

\* (variant: an empty table is merged and written like any other)
SaveHistoricalDataUnguarded(parts, df, symbol, period, data_type, io) ==
    MergeAndWrite(parts, df, symbol, period, data_type, io)

\* CacheManager.save_historical_data(df, symbol, period, data_type): the
\* contents of the files it can leave
SaveHistoricalData(parts, df, symbol, period, data_type, io) ==
    IF IsEmpty(df) THEN {parts}
    ELSE MergeAndWrite(parts, df, symbol, period, data_type, io)

----------------------------------------------------------------------------
(* DataSourceManager *)

\* _wait_for_rate_limit: the clock after the sleep, which is also the new
\* last_request_time
WaitForRateLimit(t, last) ==
    LET elapsed == t - last
    IN  IF elapsed < request_interval THEN t + (request_interval - elapsed) ELSE t

\* failure_count is only ever read as failure_count.get(source, 0): it is
\* modelled as the function source -> count, a missing key being count 0
SourceNames == {"em", "sina", "em_combined", "tx", "csindex"}

NoFailures == [s \in SourceNames |-> 0]

\* (variant: a failure sets the counter to 1 instead of adding to it)
RecordFailureFlag(fc, source) == [fc EXCEPT ![source] = 1]

RecordFailure(fc, source) == [fc EXCEPT ![source] = fc[source] + 1]

\* (variant: a success resets the counters of all sources)
RecordSuccessAll(fc, source) == NoFailures

RecordSuccess(fc, source) == [fc EXCEPT ![source] = 0]

\* (variant: a source stays eligible at max_failures)
IsSourceHealthyLax(fc, source) == fc[source] <= max_failures

IsSourceHealthy(fc, source) == fc[source] < max_failures

\* the state a resolution starts from
Begin(fc, last, t) ==
    [failure_count |-> fc, last_request_time |-> last, now |-> t,
     last_error |-> "None", done |-> FALSE, ret |-> [kind |-> "none"],
     trace |-> <<>>, calls |-> <<>>]

\* `if not self._is_source_healthy(source_name): continue`
SkipCandidate(st, source) ==
    [st EXCEPT !.trace = Append(@, [source |-> source, step |-> "skip", outcome |-> "skip",
                                    caught |-> FALSE, df |-> None, at |-> st.now,
                                    before |-> st.failure_count[source],
                                    after |-> st.failure_count[source]])]

Outcome(f) ==
    IF f.raised THEN "raise" ELSE IF f.df.none THEN "none" ELSE IF IsEmpty(f.df) THEN "empty" ELSE "rows"

\* (variant: no except clause, the exception of a candidate leaves the loop)
TryCandidateNoExcept(st, source, f) ==
    LET t     == WaitForRateLimit(st.now, st.last_request_time)
        made  == [i \in 1..Len(f.apis) |-> <<f.apis[i], t>>]
        fc    == IF (~f.raised) /\ Usable(f.df) THEN RecordSuccess(st.failure_count, source)
                 ELSE st.failure_count
        entry == [source |-> source, step |-> "invoke", outcome |-> Outcome(f),
                  caught |-> f.caught, df |-> f.df, at |-> t,
                  before |-> st.failure_count[source],
                  after |-> fc[source]]
    IN  [failure_count |-> fc,
         last_request_time |-> t,
         now |-> t,
         last_error |-> IF f.raised THEN f.error ELSE st.last_error,
         done |-> f.raised \/ Usable(f.df),
         ret |-> IF f.raised THEN [kind |-> "error", last_error |-> f.error]
                 ELSE IF Usable(f.df) THEN [kind |-> "rows", df |-> f.df]
                 ELSE st.ret,
         trace |-> Append(st.trace, entry),
         calls |-> st.calls \o made]

\* the body of the try statement for one candidate: f is what fetch_func()
\* does
TryCandidate(st, source, f) ==
    LET t     == WaitForRateLimit(st.now, st.last_request_time)
        made  == [i \in 1..Len(f.apis) |-> <<f.apis[i], t>>]
        fc    == IF f.raised THEN RecordFailure(st.failure_count, source)
                 ELSE IF Usable(f.df) THEN RecordSuccess(st.failure_count, source)
                 ELSE st.failure_count
        entry == [source |-> source, step |-> "invoke", outcome |-> Outcome(f),
                  caught |-> f.caught, df |-> f.df, at |-> t,
                  before |-> st.failure_count[source],
                  after |-> fc[source]]
    IN  [failure_count |-> fc,
         last_request_time |-> t,
         now |-> t,
         last_error |-> IF f.raised THEN f.error ELSE st.last_error,
         done |-> (~f.raised) /\ Usable(f.df),
         ret |-> IF (~f.raised) /\ Usable(f.df) THEN [kind |-> "rows", df |-> f.df]
                 ELSE st.ret,
         trace |-> Append(st.trace, entry),
         calls |-> st.calls \o made]

\* (variant: the counters are kept)
AllSourcesFailedNoClear(st) ==
    [st EXCEPT !.done = TRUE,
               !.ret = [kind |-> "error", last_error |-> st.last_error]]

\* after the loop: failure_count.clear() and the aggregate exception
AllSourcesFailed(st) ==
    [st EXCEPT !.failure_count = NoFailures,
               !.done = TRUE,
               !.ret = [kind |-> "error", last_error |-> st.last_error]]

RECURSIVE Resolve(_, _, _, _)
\* the loop `for source_name, fetch_func in sources` from candidate i on:
\* the states it can end in
Resolve(sources, fetch, i, st) ==
    IF i > Len(sources) THEN {AllSourcesFailed(st)}
    ELSE LET source_name == sources[i]
         IN  IF ~IsSourceHealthy(st.failure_count, source_name)
             THEN Resolve(sources, fetch, i + 1, SkipCandidate(st, source_name))
             ELSE UNION { LET st2 == TryCandidate(st, source_name, f)
                          IN  IF st2.done THEN {st2}
                              ELSE Resolve(sources, fetch, i + 1, st2)
                          : f \in fetch[source_name] }

\* start time of the last upstream call made so far
LastCall == IF calls = <<>> THEN prev_call ELSE calls[Len(calls)][2]

\* the effect of a resolution that ended in state st, within a call that
\* hands result to its caller
ResolvedWith(name, st, result) ==
    /\ st.now <= horizon
    /\ now' = st.now
    /\ last_request_time' = st.last_request_time
    /\ failure_count' = st.failure_count
    /\ op' = name
    /\ ret' = result
    /\ trace' = st.trace
    /\ calls' = st.calls
    /\ prev_call' = LastCall
    /\ UNCHANGED horizon

\* the effect of a resolution that ended in state st
Resolved(name, st) == ResolvedWith(name, st, st.ret)

\* DataSourceManager.get_realtime_quotes()
get_realtime_quotes ==
    \E st \in Resolve(RealtimeSources, RealtimeFetch, 1,
                      Begin(failure_count, last_request_time, now)) :
        /\ Resolved([name |-> "get_realtime_quotes"], st)
        /\ requests' = <<[name |-> "get_realtime_quotes"]>>
        /\ store_ops' = <<>>
        /\ UNCHANGED <<memory_cache, partitions>>

\* DataSourceManager.get_stock_history(symbol, period, start_date, end_date, adjust)
get_stock_history(symbol, period, start_date, end_date) ==
    /\ \E st \in Resolve(StockSources, StockFetch(period, start_date, end_date), 1,
                         Begin(failure_count, last_request_time, now)) :
           Resolved([name |-> "get_stock_history", symbol |-> symbol, period |-> period,
                     start_date |-> start_date, end_date |-> end_date], st)
    /\ requests' = <<[name |-> "get_stock_history", symbol |-> symbol, period |-> period,
                      start_date |-> start_date, end_date |-> end_date]>>
    /\ store_ops' = <<>>
    /\ UNCHANGED <<memory_cache, partitions>>

\* DataSourceManager.get_index_history(symbol, period, start_date, end_date)
get_index_history(symbol, period, start_date, end_date) ==
    /\ \E st \in Resolve(IndexSources, IndexFetch(period, start_date, end_date), 1,
                         Begin(failure_count, last_request_time, now)) :
           Resolved([name |-> "get_index_history", symbol |-> symbol, period |-> period,
                     start_date |-> start_date, end_date |-> end_date], st)
    /\ requests' = <<[name |-> "get_index_history", symbol |-> symbol, period |-> period,
                      start_date |-> start_date, end_date |-> end_date]>>
    /\ store_ops' = <<>>
    /\ UNCHANGED <<memory_cache, partitions>>

\* the accesses to the parquet files, as store_ops records them
Loaded(path, start_date, end_date, io, df) ==
    [op |-> "load", path |-> path, start_date |-> start_date, end_date |-> end_date,
     io |-> io, df |-> df]

Saved(path, io, df) ==
    [op |-> "save", path |-> path, start_date |-> 0, end_date |-> 0, io |-> io, df |-> df]

\* what analyze_stock makes of the outcome r of get_stock_history_cached
AnalyzeResult(r) ==
    IF r.kind = "error" THEN [kind |-> "error", error |-> "fetch_failed"]
    ELSE IF IsEmpty(r.df) THEN [kind |-> "error", error |-> "no_data"]
    ELSE IF Len(r.df.rows) < min_required THEN [kind |-> "error", error |-> "insufficient_data"]
    ELSE [kind |-> "analysis", df |-> r.df]

\* what analyze_index makes of the outcome r of get_index_history_cached
AnalyzeIndexResult(r) ==
    IF r.kind = "error" THEN [kind |-> "error", error |-> "fetch_failed"]
    ELSE IF IsEmpty(r.df) THEN [kind |-> "error", error |-> "no_data"]
    ELSE [kind |-> "analysis", df |-> r.df]

\* the text of a code of the upstream quote tables
CodeText(code) == IF code = 1 THEN "600519" ELSE "000001"

\* what get_stock_quote(symbol) makes of the outcome r of
\* get_realtime_quotes_cached, up to the row it reads: any exception, the
\* KeyError of a missing column included, becomes an error
StockQuoteResult(symbol, r) ==
    IF r.kind = "error" THEN [kind |-> "error", error |-> "exception"]
    ELSE IF "daima" \notin r.df.cols THEN [kind |-> "error", error |-> "exception"]
    ELSE LET stock == SelectSeq(r.df.rows, LAMBDA row : CodeText(row.daima) = symbol)
         IN  IF Len(stock) = 0 THEN [kind |-> "error", error |-> "not_found"]
             ELSE IF ~({"mingcheng", "zuixinjia"} \subseteq r.df.cols)
                  THEN [kind |-> "error", error |-> "exception"]
                  ELSE [kind |-> "quote", row |-> stock[1]]

\* what the public function of the call `call` hands to its caller when
\* the read-through it runs ends with outcome r
ResultOf(call, r) ==
    CASE call.name = "analyze_stock"   -> AnalyzeResult(r)
      [] call.name = "analyze_index"   -> AnalyzeIndexResult(r)
      [] call.name = "get_stock_quote" -> StockQuoteResult(call.symbol, r)
      [] OTHER                         -> r

\* (variant: the entry is set whatever the resolution ended with)
QuotesCacheAfterAlways(mc, r, t) ==
    CacheSetRealtimeQuotes(mc, IF r.kind = "rows" THEN r.df ELSE None, t)

\* the memory cache after data_source.get_realtime_quotes() ended with r at
\* time t: its exception leaves get_realtime_quotes_cached before
\* cache.set_realtime_quotes(df)
QuotesCacheAfter(mc, r, t) ==
    IF r.kind = "rows" THEN CacheSetRealtimeQuotes(mc, r.df, t) ELSE mc

\* the body of get_realtime_quotes_cached(), run within the call `call` of a
\* public function
QuotesCachedIn(call) ==
    LET cached == CacheGetRealtimeQuotes(memory_cache, now)
    IN  IF ~cached.value.none
        THEN /\ ret' = ResultOf(call, [kind |-> "rows", df |-> cached.value])
             /\ memory_cache' = cached.cache
             /\ op' = call
             /\ trace' = <<>>
             /\ calls' = <<>>
             /\ prev_call' = LastCall
             /\ store_ops' = <<>>
             /\ requests' = <<>>
             /\ UNCHANGED <<now, last_request_time, failure_count, horizon, partitions>>
        ELSE \E st \in Resolve(RealtimeSources, RealtimeFetch, 1,
                               Begin(failure_count, last_request_time, now)) :
                /\ ResolvedWith(call, st, ResultOf(call, st.ret))
                /\ memory_cache' = QuotesCacheAfter(cached.cache, st.ret, st.now)
                /\ store_ops' = <<>>
                /\ requests' = <<[name |-> "get_realtime_quotes"]>>
                /\ UNCHANGED partitions

\* get_realtime_quotes_cached()
get_realtime_quotes_cached == QuotesCachedIn([name |-> "get_realtime_quotes_cached"])

\* the body shared by get_stock_history_cached and get_index_history_cached,
\* run within the call `call` of a public function: method is the method of
\* the Source Manager called on a miss, sources and fetch its candidates
HistoryCachedIn(call, data_type, method, sources, fetch, symbol, period, start_date, end_date) ==
    \E io \in LoadIo :
        LET path      == FilePath(symbol, period, data_type)
            cached_df == GetHistoricalData(partitions, symbol, period, start_date, end_date,
                                           data_type, io)
            load      == Loaded(path, start_date, end_date, io, cached_df)
        IN  IF (~cached_df.none) /\ Len(cached_df.rows) > 0
            THEN /\ ret' = ResultOf(call, [kind |-> "rows", df |-> cached_df])
                 /\ op' = call
                 /\ trace' = <<>>
                 /\ calls' = <<>>
                 /\ prev_call' = LastCall
                 /\ store_ops' = <<load>>
                 /\ requests' = <<>>
                 /\ UNCHANGED <<now, last_request_time, failure_count, memory_cache, horizon,
                                partitions>>
            ELSE \E st \in Resolve(sources, fetch, 1,
                                   Begin(failure_count, last_request_time, now)) :
                    /\ ResolvedWith(call, st, ResultOf(call, st.ret))
                    /\ requests' = <<[name |-> method, symbol |-> symbol, period |-> period,
                                      start_date |-> start_date, end_date |-> end_date]>>
                    /\ UNCHANGED memory_cache
                    /\ IF st.ret.kind = "rows" /\ ~IsEmpty(st.ret.df)
                       THEN \E wio \in SaveIo :
                               /\ partitions' \in SaveHistoricalData(partitions, st.ret.df, symbol,
                                                                     period, data_type, wio)
                               /\ store_ops' = <<load, Saved(path, wio, st.ret.df)>>
                       ELSE /\ store_ops' = <<load>>
                            /\ UNCHANGED partitions

\* a call of get_stock_history_cached or get_index_history_cached itself
HistoryCached(name, data_type, method, sources, fetch, symbol, period, start_date, end_date) ==
    HistoryCachedIn([name |-> name, symbol |-> symbol, period |-> period,
                     start_date |-> start_date, end_date |-> end_date],
                    data_type, method, sources, fetch, symbol, period, start_date, end_date)

\* (variant: the stock read-through works on the partition of the index)
get_stock_history_cachedAsIndex(symbol, period, start_date, end_date) ==
    HistoryCached("get_stock_history_cached", "index", "get_stock_history", StockSources,
                  StockFetch(period, StrptimeCompact(start_date), StrptimeCompact(end_date)),
                  symbol, period, start_date, end_date)

\* get_stock_history_cached(symbol, period, start_date, end_date, adjust)
get_stock_history_cached(symbol, period, start_date, end_date) ==
    HistoryCached("get_stock_history_cached", "stock", "get_stock_history", StockSources,
                  StockFetch(period, StrptimeCompact(start_date), StrptimeCompact(end_date)),
                  symbol, period, start_date, end_date)

\* get_index_history_cached(symbol, period, start_date, end_date)
get_index_history_cached(symbol, period, start_date, end_date) ==
    HistoryCached("get_index_history_cached", "index", "get_index_history", IndexSources,
                  IndexFetch(period, StrptimeCompact(start_date), StrptimeCompact(end_date)),
                  symbol, period, start_date, end_date)

\* cache.save_historical_data(df, symbol, period, data_type)
save_historical_data(df, symbol, period, data_type) ==
    \E io \in SaveIo :
        /\ partitions' \in SaveHistoricalData(partitions, df, symbol, period, data_type, io)
        /\ op' = [name |-> "save_historical_data", df |-> df, symbol |-> symbol,
                  period |-> period, data_type |-> data_type, io |-> io]
        /\ ret' = [kind |-> "none"]
        /\ store_ops' = IF IsEmpty(df) THEN <<>>
                        ELSE <<Saved(FilePath(symbol, period, data_type), io, df)>>
        /\ trace' = <<>>
        /\ calls' = <<>>
        /\ requests' = <<>>
        /\ prev_call' = LastCall
        /\ UNCHANGED <<now, last_request_time, failure_count, memory_cache, horizon>>

\* cache.get_historical_data(symbol, period, start_date, end_date, data_type)
get_historical_data(symbol, period, start_date, end_date, data_type) ==
    \E io \in LoadIo :
        LET df == GetHistoricalData(partitions, symbol, period, start_date, end_date,
                                    data_type, io)
        IN  /\ ret' = [kind |-> "value", df |-> df]
            /\ op' = [name |-> "get_historical_data", symbol |-> symbol, period |-> period,
                      start_date |-> start_date, end_date |-> end_date,
                      data_type |-> data_type, io |-> io]
            /\ store_ops' = <<Loaded(FilePath(symbol, period, data_type), start_date, end_date,
                                     io, df)>>
            /\ trace' = <<>>
            /\ calls' = <<>>
            /\ requests' = <<>>
            /\ prev_call' = LastCall
            /\ UNCHANGED <<now, last_request_time, failure_count, memory_cache, horizon,
                           partitions>>

\* the characters of the file name f"{data_type}_{symbol}_{period}.parquet" of
\* a path; the suffix is kept as one token
FileName(path) ==
    Chars(path[1]) \o <<"_">> \o Chars(path[2]) \o <<"_">> \o Chars(path[3]) \o <<".parquet">>

RECURSIVE GlobMatch(_, _)
\* Path.glob on the names of a directory: "*" stands for any run of
\* characters, every other character of the pattern for itself
GlobMatch(pattern, name) ==
    IF pattern = <<>> THEN name = <<>>
    ELSE IF Head(pattern) = "*"
         THEN \E k \in 0..Len(name) : GlobMatch(Tail(pattern), SubSeq(name, k + 1, Len(name)))
         ELSE /\ name # <<>>
              /\ Head(name) = Head(pattern)
              /\ GlobMatch(Tail(pattern), Tail(name))

\* (variant: the pattern f"*{symbol}*.parquet", without the separators)
LocalCachePatternLoose(symbol) ==
    IF symbol # Nothing /\ symbol # Some("")
    THEN <<"*">> \o Chars(CHOOSE x \in symbol : TRUE) \o <<"*", ".parquet">>
    ELSE <<"*", ".parquet">>

\* the pattern clear_local_cache(symbol) globs with: `if symbol:` is false
\* for None and for the empty string
LocalCachePattern(symbol) ==
    IF symbol # Nothing /\ symbol # Some("")
    THEN <<"*", "_">> \o Chars(CHOOSE x \in symbol : TRUE) \o <<"_", "*", ".parquet">>
    ELSE <<"*", ".parquet">>

\* CacheManager.clear_memory_cache()
ClearMemoryCache(mc) == EmptyDict

\* CacheManager.clear_local_cache(symbol): the files left and the count returned
ClearLocalCache(parts, symbol) ==
    LET matches == {path \in FilePaths : /\ parts[path].exists
                                         /\ GlobMatch(LocalCachePattern(symbol), FileName(path))}
    IN  [parts |-> [path \in FilePaths |-> IF path \in matches THEN NoFile ELSE parts[path]],
         count |-> Cardinality(matches)]

\* clear_cache_cmd(cache_type, symbol)
clear_cache_cmd(cache_type, symbol) ==
    LET memory  == cache_type \in {"memory", "all"}
        local   == cache_type \in {"local", "all"}
        cleared == ClearLocalCache(partitions, symbol)
    IN  /\ memory_cache' = IF memory THEN ClearMemoryCache(memory_cache) ELSE memory_cache
        /\ partitions' = IF local THEN cleared.parts ELSE partitions
        /\ ret' = [kind |-> "clear_cache", cache_type |-> cache_type,
                   memory_cleared |-> memory,
                   local_files_deleted |-> IF local THEN Some(cleared.count) ELSE Nothing,
                   symbol |-> IF local /\ symbol # Nothing /\ symbol # Some("")
                              THEN symbol ELSE Nothing]
        /\ op' = [name |-> "clear_cache_cmd", cache_type |-> cache_type, symbol |-> symbol]
        /\ trace' = <<>>
        /\ calls' = <<>>
        /\ store_ops' = <<>>
        /\ requests' = <<>>
        /\ prev_call' = LastCall
        /\ UNCHANGED <<now, last_request_time, failure_count, horizon>>

\* str.isdigit(): at least one character and every character a digit
IsDigit(symbol) ==
    /\ Len(Chars(symbol)) > 0
    /\ \A i \in 1..Len(Chars(symbol)) :
          Chars(symbol)[i] \in {"0", "1", "2", "3", "4", "5", "6", "7", "8", "9"}

\* (variant: only the length is checked)
InvalidStockSymbolLengthOnly(symbol) == Len(Chars(symbol)) # symbol_length

\* `not symbol or not symbol.isdigit() or len(symbol) != 6` of analyze_stock
InvalidStockSymbol(symbol) ==
    Len(Chars(symbol)) = 0 \/ ~IsDigit(symbol) \/ Len(Chars(symbol)) # symbol_length

\* the date datetime.now() falls on: time 0 of the model lies on day MaxEndDay
Today(t) == MaxEndDay + (t \div 86400)

\* analyze_stock(symbol, period, days), up to the checks of the fetched table
analyze_stock(symbol, period, days) ==
    LET call == [name |-> "analyze_stock", symbol |-> symbol, period |-> period, days |-> days]
    IN  IF InvalidStockSymbol(symbol)
        THEN /\ ret' = [kind |-> "error", error |-> "invalid_symbol"]
             /\ op' = call
             /\ trace' = <<>>
             /\ calls' = <<>>
             /\ store_ops' = <<>>
             /\ requests' = <<>>
             /\ prev_call' = LastCall
             /\ UNCHANGED <<now, last_request_time, failure_count, memory_cache, horizon,
                            partitions>>
        ELSE LET clamped    == IF days > max_days THEN max_days
                               ELSE IF days < min_days THEN min_days ELSE days
                 end_date   == Compact(Today(now))
                 start_date == Compact(Today(now) - clamped)
             IN  HistoryCachedIn(call, "stock", "get_stock_history", StockSources,
                                 StockFetch(period, StrptimeCompact(start_date),
                                            StrptimeCompact(end_date)),
                                 symbol, period, start_date, end_date)

\* analyze_index(symbol, period), up to the check of the fetched table: the
\* symbol goes to get_index_history_cached as it is
analyze_index(symbol, period) ==
    LET call       == [name |-> "analyze_index", symbol |-> symbol, period |-> period]
        end_date   == Compact(Today(now))
        start_date == Compact(Today(now) - index_days)
    IN  HistoryCachedIn(call, "index", "get_index_history", IndexSources,
                        IndexFetch(period, StrptimeCompact(start_date),
                                   StrptimeCompact(end_date)),
                        symbol, period, start_date, end_date)

\* get_stock_quote(symbol): the quotes are read through the cache first, the
\* symbol is looked up in them afterwards
get_stock_quote(symbol) == QuotesCachedIn([name |-> "get_stock_quote", symbol |-> symbol])

\* the keys, values and ttl arguments the memory cache is exercised with
Keys == {"realtime_quotes", "sector_flow"}

Values == {DataFrame({}, <<>>)} \cup {DataFrame(EmCols, QuoteRows(1..k)) : k \in Codes}

TtlArgs == {Nothing, Some(realtime_ttl)} \cup {Some(n) : n \in 0..MaxTtl}

\* cache.get_memory(key, ttl)
get_memory(key, ttl) ==
    LET r == GetMemory(memory_cache, key, ttl, now)
    IN  /\ memory_cache' = r.cache
        /\ ret' = [kind |-> "value", df |-> r.value]
        /\ op' = [name |-> "get_memory", key |-> key, ttl |-> ttl]
        /\ trace' = <<>>
        /\ calls' = <<>>
        /\ prev_call' = LastCall
        /\ store_ops' = <<>>
        /\ requests' = <<>>
        /\ UNCHANGED <<now, last_request_time, failure_count, horizon, partitions>>

\* cache.set_memory(key, data)
set_memory(key, data) ==
    /\ memory_cache' = SetMemory(memory_cache, key, data, now)
    /\ ret' = [kind |-> "none"]
    /\ op' = [name |-> "set_memory", key |-> key, data |-> data]
    /\ trace' = <<>>
    /\ calls' = <<>>
    /\ prev_call' = LastCall
    /\ store_ops' = <<>>
    /\ requests' = <<>>
    /\ UNCHANGED <<now, last_request_time, failure_count, horizon, partitions>>

\* time passes between calls
Tick ==
    /\ now < horizon
    /\ now' = now + 1
    /\ UNCHANGED <<last_request_time, failure_count, memory_cache, op, ret, trace, calls,
                   prev_call, horizon, partitions, store_ops, requests>>

\* the state after construction of `cache` and `data_source`
Constructed ==
    /\ now = StartTime
    /\ last_request_time = 0
    /\ failure_count = NoFailures
    /\ memory_cache = EmptyDict
    /\ op = [name |-> "init"]
    /\ ret = [kind |-> "none"]
    /\ trace = <<>>
    /\ calls = <<>>
    /\ prev_call = -1
    /\ partitions = [path \in FilePaths |-> NoFile]
    /\ store_ops = <<>>
    /\ requests = <<>>

Init == Constructed /\ horizon = MaxTime

\* the history requests of Spec: daily bars from any day up to the last day
Requests ==
    [symbol : Symbols, period : {"daily"}, start_date : Days, end_date : {MaxDay}]

Next ==
    \/ get_realtime_quotes
    \/ \E q \in Requests : get_stock_history(q.symbol, q.period, q.start_date, q.end_date)
    \/ \E q \in Requests : get_index_history(q.symbol, q.period, q.start_date, q.end_date)
    \/ Tick

Spec == Init /\ [][Next]_vars

----------------------------------------------------------------------------
(* The memory cache alone *)

InitMemory == Constructed /\ horizon = MaxTime

NextMemory ==
    \/ \E key \in Keys, data \in Values : set_memory(key, data)
    \/ \E key \in Keys, ttl \in TtlArgs : get_memory(key, ttl)
    \/ Tick

SpecMemory == InitMemory /\ [][NextMemory]_vars

----------------------------------------------------------------------------
(* The cached quotes: between two calls passes the ttl of the quotes, or   *)
(* one second more                                                         *)

Elapse(d) ==
    /\ now + d <= horizon
    /\ now' = now + d
    /\ UNCHANGED <<last_request_time, failure_count, memory_cache, op, ret, trace, calls,
                   prev_call, horizon, partitions, store_ops, requests>>

InitQuotes == Constructed /\ horizon = MaxQuoteTime

NextQuotes ==
    \/ get_realtime_quotes_cached
    \/ \E d \in {realtime_ttl, realtime_ttl + 1} : Elapse(d)

SpecQuotes == InitQuotes /\ [][NextQuotes]_vars

----------------------------------------------------------------------------
(* The historical read-through: requests that end on the last day, from    *)
(* the first day or from the day before the last                           *)

HistoryRequests ==
    [symbol : Symbols, period : {"daily"},
     start_date : {Compact(1), Compact(MaxEndDay - 1)}, end_date : {Compact(MaxEndDay)}]

InitHistory == Constructed /\ horizon = MaxHistTime

NextHistory ==
    \/ \E q \in HistoryRequests :
           get_stock_history_cached(q.symbol, q.period, q.start_date, q.end_date)
    \/ \E q \in HistoryRequests :
           get_index_history_cached(q.symbol, q.period, q.start_date, q.end_date)

SpecHistory == InitHistory /\ [][NextHistory]_vars

----------------------------------------------------------------------------
(* The historical store alone: the daily stock partition of one symbol is  *)
(* saved to and loaded from.  A table handed to save_historical_data comes *)
(* from one api and lists days in any order, a day possibly more than once *)

StoreDays == 1..MaxStoreDay

RECURSIVE DaySeqs(_)
\* the sequences of at most n days
DaySeqs(n) ==
    IF n = 0 THEN {<<>>}
    ELSE DaySeqs(n - 1) \cup {Append(q, d) : q \in {x \in DaySeqs(n - 1) : Len(x) = n - 1},
                                             d \in StoreDays}

SaveTables ==
    {DataFrame(HistCols, [i \in 1..Len(q) |-> [riqi |-> q[i], period |-> "daily", api |-> api]]) :
        q \in DaySeqs(MaxRows), api \in {"stock_zh_a_hist", "stock_zh_a_daily"}}

StoreRanges == {r \in [start_date : StoreDays, end_date : StoreDays] : r.start_date <= r.end_date}

InitStore == Constructed /\ horizon = MaxTime

NextStore ==
    \/ \E df \in SaveTables, symbol \in Symbols :
           save_historical_data(df, symbol, "daily", "stock")
    \/ \E r \in StoreRanges, symbol \in Symbols :
           get_historical_data(symbol, "daily", Compact(r.start_date), Compact(r.end_date), "stock")

SpecStore == InitStore /\ [][NextStore]_vars

----------------------------------------------------------------------------
(* analyze_stock, called with well-formed and malformed symbols            *)

DaysArgs == {min_days - 1, min_days, min_days + 1}

InitAnalyze == Constructed /\ horizon = MaxHistTime

NextAnalyze ==
    \E symbol \in SymbolArgs, days \in DaysArgs : analyze_stock(symbol, "daily", days)

SpecAnalyze == InitAnalyze /\ [][NextAnalyze]_vars

\* the historical read-through asked for weekly bars
WeeklyRequests ==
    [symbol : Symbols, period : {"weekly"},
     start_date : {Compact(1)}, end_date : {Compact(MaxEndDay)}]

InitWeekly == Constructed /\ horizon = MaxHistTime

NextWeekly ==
    \/ \E q \in WeeklyRequests :
           get_stock_history_cached(q.symbol, q.period, q.start_date, q.end_date)
    \/ \E q \in WeeklyRequests :
           get_index_history_cached(q.symbol, q.period, q.start_date, q.end_date)

SpecWeekly == InitWeekly /\ [][NextWeekly]_vars

\* the three read-throughs side by side
ReadThroughRequests ==
    [symbol : Symbols, period : {"daily"},
     start_date : {Compact(1)}, end_date : {Compact(MaxEndDay)}]

InitReadThrough == Constructed /\ horizon = MaxHistTime

NextReadThrough ==
    \/ get_realtime_quotes_cached
    \/ \E q \in ReadThroughRequests :
           get_stock_history_cached(q.symbol, q.period, q.start_date, q.end_date)
    \/ \E q \in ReadThroughRequests :
           get_index_history_cached(q.symbol, q.period, q.start_date, q.end_date)

SpecReadThrough == InitReadThrough /\ [][NextReadThrough]_vars

\* clearing the caches: partitions of two symbols, one a prefix of the other,
\* are saved and memory entries set, and the caches are cleared by scope
CacheTypes == {"memory", "local", "all"}

ClearSymbols == {"600519", "6005190"}

ClearKinds == {<<"daily", "stock">>, <<"weekly", "stock">>, <<"daily", "index">>}

ClearTable == DataFrame(HistCols, HistRows("stock_zh_a_hist", "daily", {1}))

InitClear == Constructed /\ horizon = MaxTime

NextClear ==
    \/ \E symbol \in ClearSymbols, k \in ClearKinds :
           save_historical_data(ClearTable, symbol, k[1], k[2])
    \/ set_memory("realtime_quotes", DataFrame(EmCols, QuoteRows(1..1)))
    \/ \E cache_type \in CacheTypes, symbol \in {Nothing, Some("")} \cup {Some(x) : x \in ClearSymbols} :
           clear_cache_cmd(cache_type, symbol)

SpecClear == InitClear /\ [][NextClear]_vars

\* the other entry points that take a symbol, called with well-formed and
\* malformed symbols
EntrySymbols == {"600519", "60051a"}

InitEntry == Constructed /\ horizon = MaxHistTime

NextEntry ==
    \E symbol \in EntrySymbols :
        \/ analyze_index(symbol, "daily")
        \/ get_stock_quote(symbol)

SpecEntry == InitEntry /\ [][NextEntry]_vars

----------------------------------------------------------------------------
(* Vocabulary of the properties *)

ResolutionNames == {"get_realtime_quotes", "get_stock_history", "get_index_history"}

\* the last call was a resolution of the Source Manager
IsResolution == op.name \in ResolutionNames

\* the priority order the specification gives each request kind
PriorityOrder ==
    [get_realtime_quotes |-> <<"em", "sina", "em_combined">>,
     get_stock_history   |-> <<"em", "tx">>,
     get_index_history   |-> <<"em", "csindex">>]

\* the source an upstream api belongs to, per request kind
ApiSource ==
    [stock_zh_a_spot_em |-> "em", stock_zh_a_spot |-> "sina",
     stock_kc_a_spot_em |-> "em_combined", stock_cy_a_spot_em |-> "em_combined",
     stock_sh_a_spot_em |-> "em_combined", stock_sz_a_spot_em |-> "em_combined",
     stock_zh_a_hist |-> "em", stock_zh_a_daily |-> "tx",
     index_zh_a_hist |-> "em", stock_zh_index_hist_csindex |-> "csindex"]

FailedOutcomes == {"raise", "none", "empty"}

\* the sources invoked (fetch_func called) by the last resolution
InvokedSources == {trace[i].source : i \in {j \in 1..Len(trace) : trace[j].step = "invoke"}}

\* the candidate list of each request kind
CandidatesOf ==
    [get_realtime_quotes |-> RealtimeSources,
     get_stock_history   |-> StockSources,
     get_index_history   |-> IndexSources]

\* the upstream calls the last resolution made for the source s
CallsFor(s) == {c \in 1..Len(calls) : ApiSource[calls[c][1]] = s}

\* no source occurs twice in the trace of the last resolution
EachCandidateOnce ==
    \A i, j \in 1..Len(trace) : trace[i].source = trace[j].source => i = j

\* the outcomes of the invocations of the source s in the last resolution
OutcomesOf(s) ==
    {trace[i].outcome : i \in {j \in 1..Len(trace) : trace[j].source = s /\ trace[j].step = "invoke"}}

\* the step is a call of a public method, not the passing of time
IsCall ==
    ~(UNCHANGED <<last_request_time, failure_count, memory_cache, op, ret, trace, calls,
                  prev_call, partitions, store_ops, requests>>)

HistoryCachedNames == {"get_stock_history_cached", "get_index_history_cached"}

\* the kind of partition each read-through function works on
KindOf == [get_stock_history_cached |-> "stock", get_index_history_cached |-> "index"]

\* the method of the Source Manager each read-through function falls back on
MethodOf ==
    [get_stock_history_cached |-> "get_stock_history",
     get_index_history_cached |-> "get_index_history"]

\* the rows of a table as a set; the dates (text) of stored rows
RowSet(rows) == {rows[i] : i \in 1..Len(rows)}

DateSet(rows) == {rows[i].riqi : i \in 1..Len(rows)}

\* the store can read and write the file of the path during a save
Persistable(file, io) == io = "ok" /\ (file.exists => file.readable)

\* the days (day numbers) of the rows stored in a readable file
StoredDays(file) == {Strptime(file.df.rows[i].riqi) : i \in 1..Len(file.df.rows)}

\* the latest of a non-empty set of days
Latest(S) == CHOOSE x \in S : \A y \in S : y <= x

\* the stored rows of a readable file whose day lies between two days
RowsBetween(file, first, last) ==
    SelectSeq(file.df.rows, LAMBDA x : first <= Strptime(x.riqi) /\ Strptime(x.riqi) <= last)

\* the path, the first day and the last day of the read-through call c
PathOf(c) == FilePath(c.symbol, c.period, KindOf[c.name])

FirstDay(c) == StrptimeCompact(c.start_date)

LastDay(c) == StrptimeCompact(c.end_date)

\* the rows are in strictly ascending order of date (text)
StrictlyAscending(rows) == \A i \in 1..(Len(rows) - 1) : rows[i].riqi < rows[i + 1].riqi

\* the path the last call of save_historical_data or get_historical_data c worked on
StorePathOf(c) == FilePath(c.symbol, c.period, c.data_type)

\* a symbol text that is empty, has a character that is no digit, or is not
\* 6 characters long
Malformed(symbol) ==
    \/ symbol = ""
    \/ \E i \in 1..Len(Chars(symbol)) : Chars(symbol)[i] \notin {"0", "1", "2", "3", "4", "5", "6", "7", "8", "9"}
    \/ Len(Chars(symbol)) # 6

----------------------------------------------------------------------------
\* C1: every resolution goes through the candidates in the fixed priority
\* order of its request kind; when it returns a table, that table is the
\* one the last candidate tried produced, every candidate before it was
\* skipped or failed, and no upstream call was made for a candidate that
\* is not in the trace.
C1_FirstSuccessWins ==
    IsResolution =>
        LET order == PriorityOrder[op.name]
            n     == Len(trace)
        IN  /\ n <= Len(order)
            /\ \A i \in 1..n : trace[i].source = order[i]
            /\ \A i \in 1..(n - 1) : trace[i].outcome # "rows"
            /\ ret.kind \in {"rows", "error"}
            /\ ret.kind = "rows" =>
                  /\ n >= 1
                  /\ trace[n].step = "invoke"
                  /\ trace[n].outcome = "rows"
                  /\ ret.df = trace[n].df
                  /\ Usable(ret.df)
            /\ ret.kind = "error" => n = Len(order) /\ trace[n].outcome # "rows"
            /\ \A c \in 1..Len(calls) : ApiSource[calls[c][1]] \in InvokedSources

\* a fallback source produced the table after the primary failed
C1_Witness ==
    /\ IsResolution
    /\ ret.kind = "rows"
    /\ Len(trace) >= 2
    /\ trace[1].outcome \in FailedOutcomes

----------------------------------------------------------------------------
\* C2: in a resolution, a candidate that raises and a candidate that returns
\* an empty or absent table are both failures: the failure counter of the
\* source goes up by exactly 1 and the resolution goes on with the next
\* candidate.
C2_EmptyCountsAsFailure ==
    IsResolution =>
        \A i \in 1..Len(trace) :
            (trace[i].step = "invoke" /\ trace[i].outcome \in FailedOutcomes) =>
                /\ trace[i].after = trace[i].before + 1
                /\ (i < Len(trace) \/ ret.kind = "error")

----------------------------------------------------------------------------
\* C3: from all failure counters at 0, a get_realtime_quotes in which the
\* upstream calls of em and sina raise and em_combined returns a non-empty
\* table returns that table and leaves the counters em = 1, sina = 1,
\* em_combined = 0.
C3_FailoverCounts ==
    ( /\ op.name = "get_realtime_quotes"
      /\ Len(trace) = 3
      /\ \A i \in 1..3 : trace[i].before = 0
      /\ trace[1].outcome = "raise"
      /\ trace[2].caught
      /\ trace[3].outcome = "rows" )
    =>
    ( /\ ret = [kind |-> "rows", df |-> trace[3].df]
      /\ failure_count["em"] = 1
      /\ failure_count["sina"] = 1
      /\ failure_count["em_combined"] = 0 )

----------------------------------------------------------------------------
\* C4: once the failure counter of a source has reached max_failures, no
\* resolution invokes that source (it appears in the trace only as skipped
\* and no upstream call is made for it) and its counter does not change
\* except by the reset of all counters; a candidate is skipped only while
\* its counter is at max_failures or more, so after the reset it is tried
\* again.
C4_UnhealthySkipped ==
    [][ IsCall =>
          /\ \A s \in SourceNames :
                failure_count[s] >= max_failures =>
                  /\ (op'.name \in ResolutionNames) =>
                        /\ s \notin InvokedSources'
                        /\ \A c \in 1..Len(calls') : ApiSource[calls'[c][1]] # s
                  /\ failure_count'[s] = failure_count[s] \/ failure_count' = NoFailures
          /\ \A i \in 1..Len(trace') :
                trace'[i].step = "skip" <=> trace'[i].before >= max_failures
      ]_vars

\* em is skipped by a resolution that a fallback source serves
C4_Witness ==
    /\ IsResolution
    /\ ret.kind = "rows"
    /\ \E i \in 1..Len(trace) : trace[i].source = "em" /\ trace[i].step = "skip"

----------------------------------------------------------------------------
\* C5: when a resolution ends in the aggregate error every failure counter is
\* 0 from then on until the next call, and the next resolution skips no
\* candidate.
C5_ResetAfterAggregateFailure ==
    [][ /\ (ret'.kind = "error") => failure_count' = NoFailures
        /\ (ret.kind = "error" /\ IsCall /\ op'.name \in ResolutionNames) =>
              \A i \in 1..Len(trace') : trace'[i].step = "invoke"
      ]_vars

\* a resolution that skipped the unhealthy em ended in the aggregate error
C5_Witness ==
    /\ IsResolution
    /\ ret.kind = "error"
    /\ trace[1].step = "skip"
    /\ failure_count = NoFailures

----------------------------------------------------------------------------
\* C6: a resolution raises the aggregate error exactly when every candidate
\* of its list was skipped as unhealthy or raised or returned an empty or
\* absent table; it returns rows exactly when a candidate it reached
\* returned a non-empty table.
C6_AggregateErrorIff ==
    IsResolution =>
        LET order == PriorityOrder[op.name]
        IN  /\ ret.kind = "error" <=>
                  /\ Len(trace) = Len(order)
                  /\ \A i \in 1..Len(trace) :
                        trace[i].outcome \in FailedOutcomes \cup {"skip"}
            /\ ret.kind = "rows" <=>
                  \E i \in 1..Len(trace) :
                        trace[i].step = "invoke" /\ trace[i].outcome = "rows"

\* all three quote sources were invoked and failed
C6_Witness ==
    /\ op.name = "get_realtime_quotes"
    /\ ret.kind = "error"
    /\ Len(trace) = 3
    /\ \A i \in 1..3 : trace[i].step = "invoke"
    /\ trace[1].outcome = "raise"

----------------------------------------------------------------------------
\* C7: when a resolution fails with the aggregate error and at least one
\* candidate was invoked and failed (raised or returned empty), the error
\* carries a last error that is not None.
C7_LastErrorPresent ==
    ( /\ IsResolution
      /\ ret.kind = "error"
      /\ \E i \in 1..Len(trace) :
            trace[i].step = "invoke" /\ trace[i].outcome \in FailedOutcomes )
    => ret.last_error # "None"

----------------------------------------------------------------------------
\* C8: any two successive upstream calls, in one resolution or in
\* consecutive ones and whatever their source, start at least
\* request_interval apart.
C8_UpstreamCallsSpaced ==
    /\ \A i \in 1..(Len(calls) - 1) : calls[i + 1][2] - calls[i][2] >= request_interval
    /\ (calls # <<>> /\ prev_call >= 0) => calls[1][2] - prev_call >= request_interval

----------------------------------------------------------------------------
\* C9: for every key and every ttl >= 0, get_memory returns the stored value
\* and keeps the entry when the age of the entry is at most ttl, returns
\* absent and removes the entry when the age is more than ttl, and returns
\* absent for a key never set.
C9_TtlRespected ==
    [][ (op'.name = "get_memory" /\ now' = now /\ op'.ttl # Nothing) =>
          LET key == op'.key
              ttl == TheValue(op'.ttl)
          IN  IF key \notin DOMAIN memory_cache
              THEN ret'.df = None /\ memory_cache' = memory_cache
              ELSE IF now - memory_cache[key][2] <= ttl
                   THEN ret'.df = memory_cache[key][1] /\ memory_cache' = memory_cache
                   ELSE ret'.df = None /\ key \notin DOMAIN memory_cache'
      ]_vars

----------------------------------------------------------------------------
\* C10: get_realtime_quotes_cached called while the stored quotes are at most
\* 30 seconds old (so at most 30 seconds after the call that fetched them)
\* returns the stored table and leaves the Source Manager alone: no upstream
\* call, failure counters and last_request_time unchanged.  With no entry or
\* an older one it resolves through the Source Manager and, when that
\* returns rows, stores them with the time of the call and returns them.
C10_QuotesReadThrough ==
    [][ LET key   == "realtime_quotes"
            fresh == key \in DOMAIN memory_cache
                        /\ now - memory_cache[key][2] <= realtime_ttl
        IN  /\ (ret.kind = "rows" /\ now - last_request_time <= realtime_ttl) => fresh
            /\ (IsCall /\ op'.name = "get_realtime_quotes_cached") =>
                  IF fresh
                  THEN /\ ret' = [kind |-> "rows", df |-> memory_cache[key][1]]
                       /\ calls' = <<>>
                       /\ trace' = <<>>
                       /\ UNCHANGED <<failure_count, last_request_time, memory_cache>>
                  ELSE /\ InvokedSources' # {}
                       /\ calls' # <<>>
                       /\ ret'.kind \in {"rows", "error"}
                       /\ ret'.kind = "rows" =>
                             /\ key \in DOMAIN memory_cache'
                             /\ memory_cache'[key] = <<ret'.df, now'>>
                             /\ ret'.df = trace'[Len(trace')].df
      ]_vars

\* a call exactly 30 seconds after the fetch is served from the cache
C10_Witness ==
    /\ op.name = "get_realtime_quotes_cached"
    /\ ret.kind = "rows"
    /\ trace = <<>>
    /\ "realtime_quotes" \in DOMAIN memory_cache
    /\ now - memory_cache["realtime_quotes"][2] = realtime_ttl
    /\ ret.df = memory_cache["realtime_quotes"][1]

----------------------------------------------------------------------------
\* C11: a historical read-through call first loads the partition of its
\* (kind, symbol, period) for the requested range.  On a non-empty hit it
\* returns the loaded rows, makes no upstream call and leaves the partitions
\* and the Source Manager alone.  On a miss it runs the Source Manager once
\* for the full requested range; a table it gets is handed to the caller as
\* fetched and is saved to the partition of the call, where (the files being
\* readable and writable) its rows replace the stored rows of the same dates
\* and the other stored rows stay.
C11_HistoryReadThrough ==
    [][(IsCall /\ op'.name \in HistoryCachedNames) =>
          LET load == store_ops'[1]
              path == PathOf(op')
          IN  /\ Len(store_ops') >= 1
              /\ load.op = "load" /\ load.path = path
              /\ load.start_date = op'.start_date /\ load.end_date = op'.end_date
              /\ IF Usable(load.df)
                 THEN /\ ret' = [kind |-> "rows", df |-> load.df]
                      /\ requests' = <<>> /\ trace' = <<>> /\ calls' = <<>>
                      /\ Len(store_ops') = 1
                      /\ UNCHANGED <<partitions, failure_count, last_request_time, now>>
                 ELSE /\ requests' = <<[name |-> MethodOf[op'.name], symbol |-> op'.symbol,
                                        period |-> op'.period, start_date |-> op'.start_date,
                                        end_date |-> op'.end_date]>>
                      /\ Len(trace') >= 1
                      /\ ret'.kind # "rows" => (Len(store_ops') = 1 /\ UNCHANGED partitions)
                      /\ ret'.kind = "rows" =>
                            /\ ret'.df = trace'[Len(trace')].df
                            /\ Len(store_ops') = 2
                            /\ store_ops'[2].op = "save" /\ store_ops'[2].path = path
                            /\ store_ops'[2].df = ret'.df
                            /\ \A other \in FilePaths \ {path} : partitions'[other] = partitions[other]
                            /\ Persistable(partitions[path], store_ops'[2].io) =>
                                  LET fetched == FormatDates(ret'.df.rows)
                                  IN  /\ partitions'[path].readable
                                      /\ RowSet(partitions'[path].df.rows) =
                                            RowSet(fetched) \cup
                                            {x \in RowSet(partitions[path].df.rows) :
                                                x.riqi \notin DateSet(fetched)}
                                      /\ Len(partitions'[path].df.rows) =
                                            Cardinality(RowSet(partitions'[path].df.rows))
      ]_vars

\* a miss whose fetched rows were merged into a partition that held other rows
C11_Witness ==
    /\ op.name \in HistoryCachedNames
    /\ Len(store_ops) = 2
    /\ store_ops[2].io = "ok"
    /\ ret.kind = "rows"
    /\ LET file == partitions[store_ops[2].path]
       IN  /\ file.readable
           /\ Len(file.df.rows) > Len(ret.df.rows)

----------------------------------------------------------------------------
\* C12: a read-through call that reads a partition without error misses
\* and goes to the Source Manager whenever its end date is more than 2 days
\* after the latest day stored, also when the partition holds rows of the
\* requested range; when the end date is at most 2 days after the latest
\* day stored and the partition holds rows of the range, those rows are
\* returned and the Source Manager is not called.
C12_Freshness ==
    [][(/\ IsCall
        /\ op'.name \in HistoryCachedNames
        /\ store_ops'[1].io = "ok"
        /\ partitions[PathOf(op')].readable
        /\ ~IsEmpty(partitions[PathOf(op')].df)) =>
          LET file    == partitions[PathOf(op')]
              load    == store_ops'[1]
              gap     == LastDay(op') - Latest(StoredDays(file))
              wanted  == RowsBetween(file, FirstDay(op'), LastDay(op'))
          IN  /\ gap > 2 => (load.df.none /\ Len(requests') = 1)
              /\ (gap <= 2 /\ wanted # <<>>) =>
                    /\ load.df = DataFrame(file.df.cols, wanted)
                    /\ ret' = [kind |-> "rows", df |-> load.df]
                    /\ requests' = <<>>
      ]_vars

\* a call that found rows of its range in a partition whose latest day is
\* more than 2 days before its end date, and went to the Source Manager,
\* which failed
C12_Witness ==
    /\ op.name \in HistoryCachedNames
    /\ Len(store_ops) = 1
    /\ store_ops[1].io = "ok"
    /\ store_ops[1].df.none
    /\ Len(requests) = 1
    /\ ret.kind = "error"
    /\ partitions[PathOf(op)].readable
    /\ RowsBetween(partitions[PathOf(op)], FirstDay(op), LastDay(op)) # <<>>
    /\ LastDay(op) - Latest(StoredDays(partitions[PathOf(op)])) > 2

----------------------------------------------------------------------------
\* C13: a read-through call whose partition, read without error, holds no
\* day as early as the requested start date goes to the Source Manager
\* instead of returning the rows the partition holds.
C13_RefetchWhenNotCovered ==
    [][(/\ IsCall
        /\ op'.name \in HistoryCachedNames
        /\ store_ops'[1].io = "ok"
        /\ partitions[PathOf(op')].readable
        /\ ~IsEmpty(partitions[PathOf(op')].df)
        /\ \A d \in StoredDays(partitions[PathOf(op')]) : d > FirstDay(op')) =>
          Len(requests') = 1
      ]_vars

----------------------------------------------------------------------------
\* C14: a save of a non-empty table N to a partition E that exists, the
\* file being read and written without error, leaves exactly one row for
\* each date of E or N: a row of N for every date N has, the row of E for
\* every other date, in ascending order of date.
C14_MergeByDate ==
    [][(/\ IsCall
        /\ op'.name = "save_historical_data"
        /\ ~IsEmpty(op'.df)
        /\ op'.io = "ok"
        /\ partitions[StorePathOf(op')].readable) =>
          LET E      == partitions[StorePathOf(op')].df.rows
              N      == FormatDates(op'.df.rows)
              merged == partitions'[StorePathOf(op')]
          IN  /\ merged.readable
              /\ DateSet(merged.df.rows) = DateSet(E) \cup DateSet(N)
              /\ Len(merged.df.rows) = Cardinality(DateSet(E) \cup DateSet(N))
              /\ \A x \in RowSet(merged.df.rows) :
                    IF x.riqi \in DateSet(N) THEN x \in RowSet(N) ELSE x \in RowSet(E)
              /\ StrictlyAscending(merged.df.rows)
      ]_vars

\* a save that left rows of the table saved next to rows of the older
\* partition
C14_Witness ==
    /\ op.name = "save_historical_data"
    /\ op.io = "ok"
    /\ partitions[StorePathOf(op)].readable
    /\ LET rows == partitions[StorePathOf(op)].df.rows
       IN  /\ \E x \in RowSet(rows) : x \in RowSet(FormatDates(op.df.rows))
           /\ \E x \in RowSet(rows) : x.api # op.df.rows[1].api

----------------------------------------------------------------------------
\* C15: every partition that can be read has its rows in ascending order
\* of date and no date twice, whatever tables were saved to it.
C15_PartitionUniqueSorted ==
    \A path \in FilePaths :
        partitions[path].readable =>
            LET rows == partitions[path].df.rows
            IN  /\ \A i \in 1..(Len(rows) - 1) : rows[i].riqi <= rows[i + 1].riqi
                /\ Len(rows) = Cardinality(DateSet(rows))

----------------------------------------------------------------------------
\* C16: from every partition state, saving a non-empty table twice (the
\* file being read and written without error) leaves what saving it once
\* leaves.
C16_SaveIdempotent ==
    \A df \in SaveTables \ {DataFrame(HistCols, <<>>)}, symbol \in Symbols :
        \A once \in SaveHistoricalData(partitions, df, symbol, "daily", "stock", "ok") :
            SaveHistoricalData(once, df, symbol, "daily", "stock", "ok") = {once}

----------------------------------------------------------------------------
\* C17: every table a historical read-through call returns, loaded from the
\* store or fetched, has its rows in strictly ascending order of date, no
\* date twice.
C17_ReturnedRowsAscending ==
    (op.name \in HistoryCachedNames /\ ret.kind = "rows") => StrictlyAscending(ret.df.rows)

----------------------------------------------------------------------------
\* C18: a save of an empty table leaves every partition as it is, whatever
\* the file system does; and when the save of a read-through call fails to
\* read the existing file or to write the merged one, the call still
\* returns the table it fetched, not an error.
C18_BestEffortWrite ==
    /\ \A path \in FilePaths, io \in SaveIo, cols \in {{}, HistCols} :
           SaveHistoricalData(partitions, DataFrame(cols, <<>>), path[2], path[3], path[1], io)
               = {partitions}
    /\ (op.name \in HistoryCachedNames /\ Len(store_ops) = 2 /\ store_ops[2].io # "ok") =>
           /\ ret = [kind |-> "rows", df |-> store_ops[2].df]
           /\ ret.df = trace[Len(trace)].df

\* a read-through call whose save could not write the file and which
\* returned the fetched rows
C18_Witness ==
    /\ op.name \in HistoryCachedNames
    /\ Len(store_ops) = 2
    /\ store_ops[2].io = "write_error"
    /\ ret.kind = "rows"
    /\ ~partitions[PathOf(op)].readable

----------------------------------------------------------------------------
\* C19: a load that cannot read or parse the file, that reads an empty
\* table or that finds no row of the requested range returns None; the
\* read-through call then goes to the Source Manager.
C19_ReadFailureIsMiss ==
    [][(IsCall /\ op'.name \in HistoryCachedNames) =>
          LET file == partitions[PathOf(op')]
              load == store_ops'[1]
          IN  /\ \A io \in LoadIo :
                    GetHistoricalData([partitions EXCEPT ![PathOf(op')] = File(DataFrame(HistCols, <<>>))],
                                      op'.symbol, op'.period, op'.start_date, op'.end_date,
                                      KindOf[op'.name], io) = None
              /\ (\/ load.io = "read_error"
                  \/ (file.exists /\ ~file.readable)
                  \/ (file.readable /\ RowsBetween(file, FirstDay(op'), LastDay(op')) = <<>>)) =>
                    /\ load.df = None
                    /\ Len(requests') = 1
                    /\ requests'[1].name = MethodOf[op'.name]
                    /\ Len(trace') >= 1
      ]_vars

\* a read-through call that could not read a fresh partition holding rows
\* of its range and went to the Source Manager, which failed
C19_Witness ==
    /\ op.name \in HistoryCachedNames
    /\ Len(store_ops) = 1
    /\ store_ops[1].io = "read_error"
    /\ store_ops[1].df = None
    /\ Len(requests) = 1
    /\ ret.kind = "error"
    /\ partitions[PathOf(op)].readable
    /\ RowsBetween(partitions[PathOf(op)], FirstDay(op), LastDay(op)) # <<>>
    /\ LastDay(op) - Latest(StoredDays(partitions[PathOf(op)])) <= 2

----------------------------------------------------------------------------
\* C20: analyze_stock called with a malformed symbol returns the error of
\* an invalid symbol without loading from the store, calling the Source
\* Manager or an upstream api, and leaves the memory cache, the partitions,
\* the failure counters and last_request_time as they were.
C20_MalformedSymbolRejected ==
    [][(op'.name = "analyze_stock" /\ Malformed(op'.symbol)) =>
          /\ ret' = [kind |-> "error", error |-> "invalid_symbol"]
          /\ store_ops' = <<>>
          /\ requests' = <<>>
          /\ trace' = <<>>
          /\ calls' = <<>>
          /\ UNCHANGED <<memory_cache, partitions, failure_count, last_request_time, now>>
      ]_vars

\* a malformed symbol rejected when the store already holds a partition
C20_Witness ==
    /\ op.name = "analyze_stock"
    /\ Malformed(op.symbol)
    /\ ret = [kind |-> "error", error |-> "invalid_symbol"]
    /\ \E path \in FilePaths : partitions[path].exists

\* C21: analyze_index and get_stock_quote called with a malformed symbol
\* return an error without loading from the store, calling the Source
\* Manager or an upstream api, and leave the memory cache, the partitions,
\* the failure counters and last_request_time as they were.
C21_OtherEntryPointsReject ==
    [][(IsCall /\ op'.name \in {"analyze_index", "get_stock_quote"} /\ Malformed(op'.symbol)) =>
          /\ ret'.kind = "error"
          /\ store_ops' = <<>>
          /\ requests' = <<>>
          /\ calls' = <<>>
          /\ UNCHANGED <<memory_cache, partitions, failure_count, last_request_time>>
      ]_vars

\* C22: clear_cache_cmd with scope 'memory' empties the memory cache and
\* leaves every partition as it was; with 'local' it leaves the memory
\* cache as it was; with 'local' or 'all' it removes every partition when no
\* symbol is given (None or the empty string), and otherwise the partitions
\* of the given symbol, of every data kind and period, and no other; with
\* 'all' it also empties the memory cache; local_files_deleted is the
\* number of partitions removed.
C22_ClearRespectsScope ==
    [][(IsCall /\ op'.name = "clear_cache_cmd") =>
          LET given   == op'.symbol # Nothing /\ op'.symbol # Some("")
              removed == {path \in FilePaths :
                            partitions[path].exists /\ ~partitions'[path].exists}
          IN  /\ op'.cache_type = "memory" =>
                    /\ memory_cache' = EmptyDict
                    /\ partitions' = partitions
                    /\ ret'.local_files_deleted = Nothing
              /\ op'.cache_type = "local" => memory_cache' = memory_cache
              /\ op'.cache_type = "all" => memory_cache' = EmptyDict
              /\ op'.cache_type \in {"local", "all"} =>
                    /\ \A path \in FilePaths :
                          partitions'[path] =
                              IF partitions[path].exists /\ (given => path[2] \in op'.symbol)
                              THEN NoFile ELSE partitions[path]
                    /\ ret'.local_files_deleted = Some(Cardinality(removed))
      ]_vars

\* the partitions of one symbol, of two kinds, removed while a partition of
\* the other symbol and the memory entry stay
C22_Witness ==
    /\ op.name = "clear_cache_cmd"
    /\ op.cache_type = "local"
    /\ op.symbol = Some("600519")
    /\ ret.local_files_deleted = Some(2)
    /\ \E path \in FilePaths : path[2] = "6005190" /\ partitions[path].exists
    /\ memory_cache # EmptyDict

\* C23: every non-empty table get_stock_history or get_index_history returns,
\* from the primary source or from a fallback source, carries every column
\* of the canonical set.
C23_CanonicalColumns ==
    (op.name \in {"get_stock_history", "get_index_history"} /\ ret.kind = "rows"
        /\ ~IsEmpty(ret.df)) => HistCols \subseteq ret.df.cols

\* C24: no call other than a clear makes a partition lose a date: the dates
\* that can be read from a partition before a save, a load or a historical
\* read-through, failed ones included, can be read from it afterwards.
C24_PartitionNeverLosesDate ==
    [][\A path \in FilePaths :
          partitions[path].readable =>
              /\ partitions'[path].readable
              /\ DateSet(partitions[path].df.rows) \subseteq DateSet(partitions'[path].df.rows)
      ]_vars

\* C25 (as stated): within one resolution no candidate is considered twice,
\* at most as many upstream calls are made as there are candidates, and the
\* resolution ends with rows or with the aggregate error.
C25_AtMostCandidatesCalls ==
    IsResolution =>
        /\ EachCandidateOnce
        /\ Len(calls) <= Len(CandidatesOf[op.name])
        /\ ret.kind \in {"rows", "error"}

\* C25 (amended): within one resolution no candidate is considered twice,
\* so at most as many fetch functions are invoked as there are candidates;
\* a fetch makes one upstream call, that of em_combined one per board, so a
\* resolution makes at most one upstream call per candidate plus the three
\* further boards; it ends with rows or with the aggregate error.
C25_EachCandidateOnce ==
    IsResolution =>
        /\ EachCandidateOnce
        /\ Len(trace) <= Len(CandidatesOf[op.name])
        /\ Cardinality(InvokedSources) <= Len(CandidatesOf[op.name])
        /\ \A s \in SourceNames :
              Cardinality(CallsFor(s)) <= IF s \notin InvokedSources THEN 0
                                         ELSE IF s = "em_combined" THEN Len(CombinedApis)
                                         ELSE 1
        /\ Len(calls) <= Len(CandidatesOf[op.name]) + (Len(CombinedApis) - 1)
        /\ ret.kind \in {"rows", "error"}

\* every candidate of the quotes fails in turn, the last after calling the
\* four boards
C25_Witness ==
    /\ op.name = "get_realtime_quotes"
    /\ InvokedSources = {"em", "sina", "em_combined"}
    /\ Len(calls) = 6
    /\ ret.kind = "error"

\* C26: the counter of a source counts its recorded failures (exceptions of
\* its fetch that reach the loop) since its own last success or the last
\* reset of all counters, whichever is later.  Step by step: a resolution
\* that ends in the aggregate error leaves every counter at 0; otherwise
\* the counter of the source that succeeded is 0, the counter of a source
\* whose failure was recorded is one more than before, and every other
\* counter, in particular that of every source other than the one that
\* succeeded, is as before; nothing else changes a counter.
C26_ConsecutiveFailureCounter ==
    [][IF IsCall /\ op'.name \in ResolutionNames
       THEN \A s \in SourceNames :
               failure_count'[s] =
                   IF ret'.kind = "error" THEN 0
                   ELSE IF "rows" \in OutcomesOf(s)' THEN 0
                   ELSE IF "raise" \in OutcomesOf(s)' THEN failure_count[s] + 1
                   ELSE failure_count[s]
       ELSE failure_count' = failure_count
      ]_vars

\* a fallback source succeeds while the counter of em stands at 2
C26_Witness ==
    /\ IsResolution
    /\ ret.kind = "rows"
    /\ failure_count["em"] = 2
    /\ \E s \in SourceNames \ {"em"} : "rows" \in OutcomesOf(s)

\* C27: the counter of 'em' is one counter for the three request kinds.
\* Whatever the kind of a resolution and of the calls before it: em is its
\* first candidate; em is skipped exactly when the counter stands at
\* max_failures; a failure of em recorded by it adds 1 to the counter the
\* earlier resolutions, of any kind, left; and a success of em, or the
\* failure of the whole resolution, sets it to 0.
C27_SharedEmCounter ==
    [][(IsCall /\ op'.name \in ResolutionNames) =>
          /\ CandidatesOf[op'.name][1] = "em"
          /\ trace'[1].source = "em"
          /\ trace'[1].step = "skip" <=> failure_count["em"] >= max_failures
          /\ ("raise" \in OutcomesOf("em")' /\ ret'.kind # "error") =>
                failure_count'["em"] = failure_count["em"] + 1
          /\ ("rows" \in OutcomesOf("em")' \/ ret'.kind = "error") =>
                failure_count'["em"] = 0
      ]_vars

\* a history resolution skips em, whose counter stands at max_failures, and
\* is served by its fallback source
C27_Witness ==
    /\ op.name \in {"get_stock_history", "get_index_history"}
    /\ trace # <<>>
    /\ trace[1].source = "em"
    /\ trace[1].step = "skip"
    /\ failure_count["em"] = max_failures
    /\ ret.kind = "rows"

\* C28: the failure counters of the fallback sources sina, em_combined, tx
\* and csindex are 0 in every reachable state, and none of them is ever
\* skipped: their helpers turn every exception of the upstream into an
\* absent result, which is not recorded as a failure.
C28_FallbackCountersZero ==
    /\ \A s \in SourceNames \ {"em"} : failure_count[s] = 0
    /\ \A i \in 1..Len(trace) :
          trace[i].source # "em" => /\ trace[i].step = "invoke"
                                    /\ trace[i].outcome # "raise"
                                    /\ trace[i].before = 0
                                    /\ trace[i].after = 0

\* the upstream of sina raises, the helper swallows the exception, and the
\* resolution goes on to em_combined with the counter of sina at 0
C28_Witness ==
    /\ op.name = "get_realtime_quotes"
    /\ \E i \in 1..Len(trace) :
          /\ trace[i].source = "sina"
          /\ trace[i].caught
          /\ trace[i].after = 0
    /\ "em_combined" \in InvokedSources
    /\ failure_count["sina"] = 0

\* C29: every row stored in the partition of a period is a bar of that
\* period's granularity, and so is every row get_stock_history_cached or
\* get_index_history_cached returns for a request of that period, whether
\* fetched from the primary source, from a fallback source, or served from
\* the partition.
C29_PartitionGranularity ==
    /\ \A path \in FilePaths :
          partitions[path].readable =>
              \A i \in 1..Len(partitions[path].df.rows) :
                  partitions[path].df.rows[i].period = path[3]
    /\ (op.name \in HistoryCachedNames /\ ret.kind = "rows") =>
          \A i \in 1..Len(ret.df.rows) : ret.df.rows[i].period = op.period

\* C30: a read-through call that ends with the aggregate error populates no
\* cache: the partitions are as before and nothing was saved; the memory
\* cache is as before, except that get_realtime_quotes_cached may have
\* evicted its expired entry; what changed is the state of the Source
\* Manager: every failure counter is 0 and last_request_time has advanced.
C30_FailedReadThroughPopulatesNothing ==
    [][(IsCall /\ op'.name \in HistoryCachedNames \cup {"get_realtime_quotes_cached"}
              /\ ret'.kind = "error") =>
          /\ partitions' = partitions
          /\ \A i \in 1..Len(store_ops') : store_ops'[i].op # "save"
          /\ \/ memory_cache' = memory_cache
             \/ /\ op'.name = "get_realtime_quotes_cached"
                /\ "realtime_quotes" \in DOMAIN memory_cache
                /\ now - memory_cache["realtime_quotes"][2] > realtime_ttl
                /\ memory_cache' = DictDel(memory_cache, "realtime_quotes")
          /\ failure_count' = NoFailures
          /\ last_request_time' > last_request_time
      ]_vars

\* a read-through ends with the aggregate error while the store holds a
\* partition
C30_Witness ==
    /\ op.name \in HistoryCachedNames \cup {"get_realtime_quotes_cached"}
    /\ ret.kind = "error"
    /\ \E path \in FilePaths : partitions[path].readable

====
